---- MODULE Spec2Model ----
(***************************************************************************)
(* Model of the consecutive-inactivity engines of "Cursor Inactivity":     *)
(*   analyze_user_inactivity            (analyze_user_inactivity.py)       *)
(*   UserActivityAnalyzer.analyze_activity                                 *)
(*   UserActivityAnalyzer._count_business_days_backwards                   *)
(*                                      (automated_user_management.py)     *)
(*                                                                         *)
(* Dates are calendar days counted from 1970-01-01 (day 0, a Thursday).    *)
(* A formatted date ('%Y-%m-%d') is the triple <<year, month, day>>; the   *)
(* literal strings 'Unknown' and 'Never' are one-element tuples.           *)
(***************************************************************************)
EXTENDS Integers, Sequences, FiniteSets, TLC

VARIABLES
    engine,                     \* "csv" | "api": which engine this run calls
    excluded_dates,             \* holidays (set of days)
    exclude_weekends,           \* bool
    inactive_threshold,         \* int
    analysis_start_date,        \* api only: a day or None
    activity_data,              \* the input records, as the caller passes them
    df,                         \* the sorted frame
    emails,                     \* df[email].unique() still to be processed
    email,                      \* the user being processed
    user_data,                  \* that user's rows
    row,                        \* index of the next row of user_data to scan
    has_epoch_dates,            \* api only
    consecutive_inactive_days,
    max_consecutive_inactive,
    inactive_start_date,
    last_active_date,
    total_days,
    active_days,
    inactive_days,
    user_reports,
    inactive_users,
    pc,                         \* "call" | "users" | "rows" | "done" | "off"
    end_date,                   \* _count_business_days_backwards: argument
    target_business_days,       \* _count_business_days_backwards: argument
    current_date,               \* _count_business_days_backwards: local
    business_days_counted,      \* _count_business_days_backwards: local
    bd_pc,                      \* "loop" | "returned" | "off"
    dry_run,                    \* run_analysis: argument
    all_members,                \* what the team members endpoint returns
    api_data,                   \* what the daily usage endpoint returns
    actions_taken,              \* run_analysis: local
    audit_log,                  \* the lines log_action wrote
    remove_calls,               \* the calls of remove_user_from_team
    next_user,                  \* run_analysis: index in inactive_users
    run_pc                      \* "start" | "analyze" | "returned" | "off"

vars == <<engine, excluded_dates, exclude_weekends, inactive_threshold,
          analysis_start_date, activity_data, df, emails, email, user_data, row,
          has_epoch_dates, consecutive_inactive_days, max_consecutive_inactive,
          inactive_start_date, last_active_date, total_days, active_days,
          inactive_days, user_reports, inactive_users, pc,
          end_date, target_business_days, current_date, business_days_counted,
          bd_pc, dry_run, all_members, api_data, actions_taken, audit_log,
          remove_calls, next_user, run_pc>>

runVars == <<dry_run, all_members, api_data, actions_taken, audit_log,
             remove_calls, next_user, run_pc>>

cfgVars == <<engine, excluded_dates, exclude_weekends, inactive_threshold,
             analysis_start_date, activity_data>>

bdVars == <<end_date, target_business_days, current_date,
            business_days_counted, bd_pc>>

scanVars == <<df, emails, email, user_data, row, has_epoch_dates,
              consecutive_inactive_days, max_consecutive_inactive,
              inactive_start_date, last_active_date, total_days, active_days,
              inactive_days, user_reports, inactive_users, pc>>

----------------------------------------------------------------------------
(* Bounds of the model *)

MaxLen == 3          \* records of the first user
MaxLen2 == 1         \* records of the second user
MaxThreshold == 2    \* largest inactive_threshold tried
MaxRaw == 3          \* records of an unordered input
MaxRunLen == 2       \* usage records of the first user in a run
MaxTarget == 5       \* largest target_business_days tried
EndSpan == 27        \* end dates tried: the EndSpan days up to 2025-07-31

----------------------------------------------------------------------------
(* Calendar *)

None == 0 - 1

Unknown == <<"Unknown">>

Never == <<"Never">>

\* the values of an is_active cell: True, False, None (a JSON null), NaN (an
\* empty CSV cell)
PyTrue == "True"

PyFalse == "False"

PyNone == "None"

NaN == "NaN"

\* `if is_active:` : None is falsy, NaN is a non-zero float and so truthy
Truthy(v) == v \in {PyTrue, NaN}

\* `is_active == True`
EqTrue(v) == v = PyTrue

D_2025_07_04 == 20273

D_1970_01_01 == 0

D_2025_06_30 == D_2025_07_04 - 4

D_2025_07_01 == D_2025_07_04 - 3

D_2025_07_03 == D_2025_07_04 - 1

D_2025_07_05 == D_2025_07_04 + 1

D_2025_07_07 == D_2025_07_04 + 3

D_2025_07_31 == D_2025_07_04 + 27

\* datetime.weekday(): Monday = 0 ... Sunday = 6
Weekday(d) == (d + 3) % 7

\* the proleptic Gregorian civil date of day d, as datetime computes it
CivilFromDays(d) ==
    LET z   == d + 719468
        era == z \div 146097
        doe == z - era * 146097
        yoe == (doe - (doe \div 1460) + (doe \div 36524) - (doe \div 146096)) \div 365
        doy == doe - (365 * yoe + (yoe \div 4) - (yoe \div 100))
        mp  == (5 * doy + 2) \div 153
        dd  == doy - ((153 * mp + 2) \div 5) + 1
        mm  == IF mp < 10 THEN mp + 3 ELSE mp - 9
        yy  == yoe + era * 400 + (IF mm <= 2 THEN 1 ELSE 0)
    IN  <<yy, mm, dd>>

\* Timestamp.year
Year(d) == CivilFromDays(d)[1]

\* strftime('%Y-%m-%d')
Strftime(d) == CivilFromDays(d)

----------------------------------------------------------------------------
(* Frames *)

Users == <<"u1", "u2">>

EmailRank(e) == CHOOSE i \in 1..Len(Users) : Users[i] = e

\* the sort key of sort_values([email, date])
KeyLeq(a, b) ==
    \/ EmailRank(a.user_email) < EmailRank(b.user_email)
    \/ /\ a.user_email = b.user_email
       /\ a.date <= b.date

RECURSIVE InsertSorted(_, _)
InsertSorted(r, s) ==
    IF s = <<>> THEN <<r>>
    ELSE IF KeyLeq(s[Len(s)], r) THEN Append(s, r)
    ELSE Append(InsertSorted(r, SubSeq(s, 1, Len(s) - 1)), s[Len(s)])

\* the frame left in input order
SortValuesNone(s) == s

\* df.sort_values([email, date]): rows in key order, equal keys in input order
RECURSIVE SortValues(_)
SortValues(s) ==
    IF s = <<>> THEN <<>>
    ELSE InsertSorted(s[Len(s)], SortValues(SubSeq(s, 1, Len(s) - 1)))

\* df[email].unique(): the emails in order of first appearance
RECURSIVE Unique(_)
Unique(s) ==
    IF s = <<>> THEN <<>>
    ELSE LET u == Unique(SubSeq(s, 1, Len(s) - 1))
             e == s[Len(s)].user_email
         IN  IF \E i \in 1..Len(u) : u[i] = e THEN u ELSE Append(u, e)

\* df[df[email] == e]
RECURSIVE RowsOf(_, _)
RowsOf(s, e) ==
    IF s = <<>> THEN <<>>
    ELSE LET rest == RowsOf(SubSeq(s, 1, Len(s) - 1), e)
         IN  IF s[Len(s)].user_email = e THEN Append(rest, s[Len(s)]) ELSE rest

\* len(user_data[user_data[is_active] == True])
CountActive(s) == Cardinality({i \in 1..Len(s) : EqTrue(s[i].is_active)})

\* (user_data[date].dt.year == 1970).any()
HasEpochDates(s) == \E i \in 1..Len(s) : Year(s[i].date) = 1970

----------------------------------------------------------------------------
(* The streak scan: one row *)

Streak(c, m, s, l) ==
    [consecutive_inactive_days |-> c, max_consecutive_inactive |-> m,
     inactive_start_date |-> s, last_active_date |-> l]

InitialStreak == Streak(0, 0, None, None)

Max(a, b) == IF a >= b THEN a ELSE b

\* analyze_user_inactivity: is_excluded
CsvIsExcluded(d, holidays, weekends) ==
    \/ d \in holidays
    \/ weekends /\ Weekday(d) >= 5

\* is_excluded without the weekend test
ApiIsExcludedHolidaysOnly(d, holidays, weekends) == d \in holidays

\* analyze_activity: is_excluded
ApiIsExcluded(d, holidays, weekends) ==
    \/ d \in holidays
    \/ weekends /\ Weekday(d) >= 5

\* CsvStep with the first day of a streak not counted
CsvStepOffByOne(st, r, holidays, weekends) ==
    IF CsvIsExcluded(r.date, holidays, weekends)
    THEN IF Truthy(r.is_active)
         THEN Streak(0, st.max_consecutive_inactive, None, r.date)
         ELSE st
    ELSE IF Truthy(r.is_active)
         THEN Streak(0, st.max_consecutive_inactive, None, r.date)
         ELSE LET c == IF st.inactive_start_date = None
                       THEN st.consecutive_inactive_days
                       ELSE st.consecutive_inactive_days + 1
              IN  Streak(c, Max(st.max_consecutive_inactive, c),
                         IF st.inactive_start_date = None THEN r.date
                         ELSE st.inactive_start_date,
                         st.last_active_date)

\* CsvStep without the continue that ends an excluded row
CsvStepNoContinue(st, r, holidays, weekends) ==
    IF Truthy(r.is_active)
    THEN Streak(0, st.max_consecutive_inactive, None, r.date)
    ELSE LET c == st.consecutive_inactive_days + 1
         IN  Streak(c, Max(st.max_consecutive_inactive, c),
                    IF st.consecutive_inactive_days = 0 THEN r.date
                    ELSE st.inactive_start_date,
                    st.last_active_date)

\* CsvStep with the streak start set on every inactive day
CsvStepStartEveryDay(st, r, holidays, weekends) ==
    IF CsvIsExcluded(r.date, holidays, weekends)
    THEN IF Truthy(r.is_active)
         THEN Streak(0, st.max_consecutive_inactive, None, r.date)
         ELSE st
    ELSE IF Truthy(r.is_active)
         THEN Streak(0, st.max_consecutive_inactive, None, r.date)
         ELSE LET c == st.consecutive_inactive_days + 1
              IN  Streak(c, Max(st.max_consecutive_inactive, c), r.date,
                         st.last_active_date)

\* CsvStep with the streak start never recorded
CsvStepNoStart(st, r, holidays, weekends) ==
    IF CsvIsExcluded(r.date, holidays, weekends)
    THEN IF Truthy(r.is_active)
         THEN Streak(0, st.max_consecutive_inactive, None, r.date)
         ELSE st
    ELSE IF Truthy(r.is_active)
         THEN Streak(0, st.max_consecutive_inactive, None, r.date)
         ELSE LET c == st.consecutive_inactive_days + 1
              IN  Streak(c, Max(st.max_consecutive_inactive, c),
                         st.inactive_start_date, st.last_active_date)

\* analyze_user_inactivity: the body of the row loop
CsvStep(st, r, holidays, weekends) ==
    IF CsvIsExcluded(r.date, holidays, weekends)
    THEN IF Truthy(r.is_active)
         THEN Streak(0, st.max_consecutive_inactive, None, r.date)
         ELSE st
    ELSE IF Truthy(r.is_active)
         THEN Streak(0, st.max_consecutive_inactive, None, r.date)
         ELSE LET c == st.consecutive_inactive_days + 1
              IN  Streak(c, Max(st.max_consecutive_inactive, c),
                         IF st.consecutive_inactive_days = 0 THEN r.date
                         ELSE st.inactive_start_date,
                         st.last_active_date)

\* ApiStep with an active day resetting the maximum as well
ApiStepResetsMax(st, r, holidays, weekends) ==
    IF ApiIsExcluded(r.date, holidays, weekends)
    THEN st
    ELSE IF Truthy(r.is_active)
         THEN Streak(0, 0, None, r.date)
         ELSE LET c == st.consecutive_inactive_days + 1
              IN  Streak(c, Max(st.max_consecutive_inactive, c),
                         IF st.consecutive_inactive_days = 0 THEN r.date
                         ELSE st.inactive_start_date,
                         st.last_active_date)

\* analyze_activity: the body of the row loop
ApiStep(st, r, holidays, weekends) ==
    IF ApiIsExcluded(r.date, holidays, weekends)
    THEN st
    ELSE IF Truthy(r.is_active)
         THEN Streak(0, st.max_consecutive_inactive, None, r.date)
         ELSE LET c == st.consecutive_inactive_days + 1
              IN  Streak(c, Max(st.max_consecutive_inactive, c),
                         IF st.consecutive_inactive_days = 0 THEN r.date
                         ELSE st.inactive_start_date,
                         st.last_active_date)

Step(eng, st, r, holidays, weekends) ==
    IF eng = "csv" THEN CsvStep(st, r, holidays, weekends)
    ELSE ApiStep(st, r, holidays, weekends)

\* the row loop over a user's rows, from the initial streak
RECURSIVE Scan(_, _, _, _)
Scan(eng, rows, holidays, weekends) ==
    IF rows = <<>> THEN InitialStreak
    ELSE Step(eng, Scan(eng, SubSeq(rows, 1, Len(rows) - 1), holidays, weekends),
              rows[Len(rows)], holidays, weekends)

\* the threshold test with the comparison turned round
CsvMeetsThresholdFlipped(c, threshold) == c <= threshold

\* the threshold test, strict
CsvMeetsThresholdStrict(c, threshold) == c > threshold

\* analyze_user_inactivity: consecutive_inactive_days >= inactive_threshold
CsvMeetsThreshold(c, threshold) == c >= threshold

\* the threshold test, strict
ApiMeetsThresholdStrict(c, threshold) == c > threshold

\* analyze_activity: consecutive_inactive_days >= self.inactive_threshold
ApiMeetsThreshold(c, threshold) == c >= threshold

FmtOrNever(d) == IF d # None THEN Strftime(d) ELSE Never

\* analyze_user_inactivity: Inactive_Since
CsvInactiveSince(st) ==
    IF st.inactive_start_date # None THEN Strftime(st.inactive_start_date)
    ELSE Unknown

\* inactive_since without the has_epoch_dates branch
ApiInactiveSinceNoEpoch(st, epoch, start) ==
    IF st.inactive_start_date = None /\ st.last_active_date = None
    THEN IF start # None THEN Strftime(start) ELSE Unknown
    ELSE IF st.inactive_start_date # None THEN Strftime(st.inactive_start_date)
         ELSE Unknown

\* analyze_activity: inactive_since
ApiInactiveSince(st, epoch, start) ==
    IF epoch
    THEN IF start # None THEN Strftime(start) ELSE Unknown
    ELSE IF st.inactive_start_date = None /\ st.last_active_date = None
    THEN IF start # None THEN Strftime(start) ELSE Unknown
    ELSE IF st.inactive_start_date # None THEN Strftime(st.inactive_start_date)
         ELSE Unknown

----------------------------------------------------------------------------
(* Inputs *)

Dates1 == {D_1970_01_01, D_2025_07_03, D_2025_07_04, D_2025_07_05, D_2025_07_07}

Dates2 == {D_2025_07_03, D_2025_07_05}

\* the record lists of one user: at most n records, on increasing dates
RecordLists(u, dates, n) ==
    {s \in UNION {[1..k -> [user_email : {u}, date : dates, is_active : {PyTrue, PyFalse}]] :
                    k \in 0..n} :
        \A i \in 1..(Len(s) - 1) : s[i].date < s[i + 1].date}

Holidays == {{}, {D_2025_07_04}}

Thresholds == (0 - 1)..MaxThreshold

StartDates(eng) == IF eng = "api" THEN {None, D_2025_06_30} ELSE {None}

ScanIdle ==
    /\ df = <<>>
    /\ emails = <<>>
    /\ email = ""
    /\ user_data = <<>>
    /\ row = 0
    /\ has_epoch_dates = FALSE
    /\ consecutive_inactive_days = 0
    /\ max_consecutive_inactive = 0
    /\ inactive_start_date = None
    /\ last_active_date = None
    /\ total_days = 0
    /\ active_days = 0
    /\ inactive_days = 0
    /\ user_reports = <<>>
    /\ inactive_users = <<>>

BdIdle ==
    /\ end_date = None
    /\ target_business_days = 0
    /\ current_date = None
    /\ business_days_counted = 0
    /\ bd_pc = "off"

RunIdle ==
    /\ dry_run = FALSE
    /\ all_members = {}
    /\ api_data = <<>>
    /\ actions_taken = <<>>
    /\ audit_log = <<>>
    /\ remove_calls = <<>>
    /\ next_user = 0
    /\ run_pc = "off"

Init ==
    /\ engine \in {"csv", "api"}
    /\ excluded_dates \in Holidays
    /\ exclude_weekends \in BOOLEAN
    /\ inactive_threshold \in Thresholds
    /\ analysis_start_date \in StartDates(engine)
    /\ activity_data \in {a \o b : a \in RecordLists(Users[1], Dates1, MaxLen),
                                   b \in RecordLists(Users[2], Dates2, MaxLen2)}
    /\ ScanIdle
    /\ pc = "call"
    /\ BdIdle
    /\ RunIdle

----------------------------------------------------------------------------
(* analyze_user_inactivity *)

CurrentStreak ==
    Streak(consecutive_inactive_days, max_consecutive_inactive,
           inactive_start_date, last_active_date)

SetStreak(st) ==
    /\ consecutive_inactive_days' = st.consecutive_inactive_days
    /\ max_consecutive_inactive' = st.max_consecutive_inactive
    /\ inactive_start_date' = st.inactive_start_date
    /\ last_active_date' = st.last_active_date

\* the user report both engines build
UserReport ==
    [email |-> email,
     total_days |-> total_days,
     active_days |-> active_days,
     inactive_days |-> inactive_days,
     current_consecutive_inactive |-> consecutive_inactive_days,
     max_consecutive_inactive |-> max_consecutive_inactive,
     last_active_date |-> FmtOrNever(last_active_date)]

\* read, sort, and enter the loop over the users
CsvAnalyze ==
    /\ pc = "call"
    /\ engine = "csv"
    /\ df' = SortValues(activity_data)
    /\ emails' = Unique(df')
    /\ user_reports' = <<>>
    /\ inactive_users' = <<>>
    /\ pc' = "users"
    /\ UNCHANGED <<email, user_data, row, has_epoch_dates,
                   consecutive_inactive_days, max_consecutive_inactive,
                   inactive_start_date, last_active_date, total_days,
                   active_days, inactive_days>>
    /\ UNCHANGED <<cfgVars, bdVars, runVars>>

\* the head of the loop, with the totals taken over the counted rows only
CsvBeginUserCountedOnly ==
    /\ pc = "users"
    /\ engine = "csv"
    /\ emails # <<>>
    /\ email' = Head(emails)
    /\ emails' = Tail(emails)
    /\ user_data' = RowsOf(df, email')
    /\ SetStreak(InitialStreak)
    /\ total_days' =
         Cardinality({i \in 1..Len(user_data') :
                        ~CsvIsExcluded(user_data'[i].date, excluded_dates,
                                       exclude_weekends)})
    /\ active_days' =
         Cardinality({i \in 1..Len(user_data') :
                        /\ EqTrue(user_data'[i].is_active)
                        /\ ~CsvIsExcluded(user_data'[i].date, excluded_dates,
                                          exclude_weekends)})
    /\ inactive_days' = total_days' - active_days'
    /\ row' = 1
    /\ pc' = "rows"
    /\ UNCHANGED <<df, has_epoch_dates, user_reports, inactive_users>>
    /\ UNCHANGED <<cfgVars, bdVars, runVars>>

\* the head of the loop, with the streak variables initialised before the loop
CsvBeginUserCarryOver ==
    /\ pc = "users"
    /\ engine = "csv"
    /\ emails # <<>>
    /\ email' = Head(emails)
    /\ emails' = Tail(emails)
    /\ user_data' = RowsOf(df, email')
    /\ total_days' = Len(user_data')
    /\ active_days' = CountActive(user_data')
    /\ inactive_days' = total_days' - active_days'
    /\ row' = 1
    /\ pc' = "rows"
    /\ UNCHANGED <<consecutive_inactive_days, max_consecutive_inactive,
                   inactive_start_date, last_active_date>>
    /\ UNCHANGED <<df, has_epoch_dates, user_reports, inactive_users>>
    /\ UNCHANGED <<cfgVars, bdVars, runVars>>

\* the head of the loop over the users
CsvBeginUser ==
    /\ pc = "users"
    /\ engine = "csv"
    /\ emails # <<>>
    /\ email' = Head(emails)
    /\ emails' = Tail(emails)
    /\ user_data' = RowsOf(df, email')
    /\ SetStreak(InitialStreak)
    /\ total_days' = Len(user_data')
    /\ active_days' = CountActive(user_data')
    /\ inactive_days' = total_days' - active_days'
    /\ row' = 1
    /\ pc' = "rows"
    /\ UNCHANGED <<df, has_epoch_dates, user_reports, inactive_users>>
    /\ UNCHANGED <<cfgVars, bdVars, runVars>>

\* one row of the user's rows
CsvScanRow ==
    /\ pc = "rows"
    /\ engine = "csv"
    /\ row <= Len(user_data)
    /\ SetStreak(CsvStep(CurrentStreak, user_data[row], excluded_dates,
                         exclude_weekends))
    /\ row' = row + 1
    /\ UNCHANGED <<df, emails, email, user_data, has_epoch_dates, total_days,
                   active_days, inactive_days, user_reports, inactive_users, pc>>
    /\ UNCHANGED <<cfgVars, bdVars, runVars>>

\* the report of the user and, at the threshold, the flag
CsvEndUser ==
    /\ pc = "rows"
    /\ engine = "csv"
    /\ row > Len(user_data)
    /\ user_reports' = Append(user_reports, UserReport)
    /\ inactive_users' =
         IF CsvMeetsThreshold(consecutive_inactive_days, inactive_threshold)
         THEN Append(inactive_users,
                     [email |-> email,
                      consecutive_inactive_days |-> consecutive_inactive_days,
                      inactive_since |-> CsvInactiveSince(CurrentStreak),
                      max_consecutive_inactive |-> max_consecutive_inactive,
                      last_active_date |-> FmtOrNever(last_active_date)])
         ELSE inactive_users
    /\ pc' = "users"
    /\ UNCHANGED <<df, emails, email, user_data, row, has_epoch_dates,
                   consecutive_inactive_days, max_consecutive_inactive,
                   inactive_start_date, last_active_date, total_days,
                   active_days, inactive_days>>
    /\ UNCHANGED <<cfgVars, bdVars, runVars>>

\* the loop over the users is over: return the results
CsvReturn ==
    /\ pc = "users"
    /\ engine = "csv"
    /\ emails = <<>>
    /\ pc' = "done"
    /\ UNCHANGED <<df, emails, email, user_data, row, has_epoch_dates,
                   consecutive_inactive_days, max_consecutive_inactive,
                   inactive_start_date, last_active_date, total_days,
                   active_days, inactive_days, user_reports, inactive_users>>
    /\ UNCHANGED <<cfgVars, bdVars, runVars>>

----------------------------------------------------------------------------
(* UserActivityAnalyzer.analyze_activity *)

\* the empty input returns at once; otherwise sort and enter the loop
ApiAnalyze ==
    /\ pc = "call"
    /\ engine = "api"
    /\ IF activity_data = <<>>
       THEN /\ pc' = "done"
            /\ UNCHANGED <<df, emails>>
       ELSE /\ df' = SortValues(activity_data)
            /\ emails' = Unique(df')
            /\ pc' = "users"
    /\ user_reports' = <<>>
    /\ inactive_users' = <<>>
    /\ UNCHANGED <<email, user_data, row, has_epoch_dates,
                   consecutive_inactive_days, max_consecutive_inactive,
                   inactive_start_date, last_active_date, total_days,
                   active_days, inactive_days>>
    /\ UNCHANGED <<cfgVars, bdVars, runVars>>

ApiBeginUser ==
    /\ pc = "users"
    /\ engine = "api"
    /\ emails # <<>>
    /\ email' = Head(emails)
    /\ emails' = Tail(emails)
    /\ user_data' = RowsOf(df, email')
    /\ has_epoch_dates' = HasEpochDates(user_data')
    /\ SetStreak(InitialStreak)
    /\ total_days' = Len(user_data')
    /\ active_days' = CountActive(user_data')
    /\ inactive_days' = total_days' - active_days'
    /\ row' = 1
    /\ pc' = "rows"
    /\ UNCHANGED <<df, user_reports, inactive_users>>
    /\ UNCHANGED <<cfgVars, bdVars, runVars>>

ApiScanRow ==
    /\ pc = "rows"
    /\ engine = "api"
    /\ row <= Len(user_data)
    /\ SetStreak(ApiStep(CurrentStreak, user_data[row], excluded_dates,
                         exclude_weekends))
    /\ row' = row + 1
    /\ UNCHANGED <<df, emails, email, user_data, has_epoch_dates, total_days,
                   active_days, inactive_days, user_reports, inactive_users, pc>>
    /\ UNCHANGED <<cfgVars, bdVars, runVars>>

ApiEndUser ==
    /\ pc = "rows"
    /\ engine = "api"
    /\ row > Len(user_data)
    /\ user_reports' = Append(user_reports, UserReport)
    /\ inactive_users' =
         IF ApiMeetsThreshold(consecutive_inactive_days, inactive_threshold)
         THEN Append(inactive_users,
                     [email |-> email,
                      consecutive_inactive_days |-> consecutive_inactive_days,
                      inactive_since |-> ApiInactiveSince(CurrentStreak,
                                                          has_epoch_dates,
                                                          analysis_start_date),
                      last_active_date |-> FmtOrNever(last_active_date)])
         ELSE inactive_users
    /\ pc' = "users"
    /\ UNCHANGED <<df, emails, email, user_data, row, has_epoch_dates,
                   consecutive_inactive_days, max_consecutive_inactive,
                   inactive_start_date, last_active_date, total_days,
                   active_days, inactive_days>>
    /\ UNCHANGED <<cfgVars, bdVars, runVars>>

ApiReturn ==
    /\ pc = "users"
    /\ engine = "api"
    /\ emails = <<>>
    /\ pc' = "done"
    /\ UNCHANGED <<df, emails, email, user_data, row, has_epoch_dates,
                   consecutive_inactive_days, max_consecutive_inactive,
                   inactive_start_date, last_active_date, total_days,
                   active_days, inactive_days, user_reports, inactive_users>>
    /\ UNCHANGED <<cfgVars, bdVars, runVars>>

Next ==
    \/ CsvAnalyze
    \/ CsvBeginUser
    \/ CsvScanRow
    \/ CsvEndUser
    \/ CsvReturn
    \/ ApiAnalyze
    \/ ApiBeginUser
    \/ ApiScanRow
    \/ ApiEndUser
    \/ ApiReturn

Spec == Init /\ [][Next]_vars

----------------------------------------------------------------------------
(* UserActivityAnalyzer._count_business_days_backwards *)

EndDates == (D_2025_07_31 - EndSpan)..D_2025_07_31

\* not is_weekend and not is_holiday
IsBusinessDay(d, holidays) == ~(Weekday(d) >= 5) /\ ~(d \in holidays)

\* a call of the back-counter on an analyzer configured with a policy
InitBD ==
    /\ engine = "api"
    /\ excluded_dates \in Holidays
    /\ exclude_weekends \in BOOLEAN
    /\ inactive_threshold = 14
    /\ analysis_start_date = None
    /\ activity_data = <<>>
    /\ ScanIdle
    /\ pc = "off"
    /\ end_date \in EndDates
    /\ target_business_days \in 0..MaxTarget
    /\ current_date = end_date
    /\ business_days_counted = 0
    /\ bd_pc = "loop"
    /\ RunIdle

\* one iteration of the while loop
BdStep ==
    /\ bd_pc = "loop"
    /\ business_days_counted < target_business_days
    /\ business_days_counted' =
         IF IsBusinessDay(current_date, excluded_dates)
         THEN business_days_counted + 1
         ELSE business_days_counted
    /\ current_date' = current_date - 1
    /\ UNCHANGED <<end_date, target_business_days, bd_pc>>
    /\ UNCHANGED <<cfgVars, scanVars, runVars>>

\* the loop is over: return current_date
BdReturn ==
    /\ bd_pc = "loop"
    /\ ~(business_days_counted < target_business_days)
    /\ bd_pc' = "returned"
    /\ UNCHANGED <<end_date, target_business_days, current_date,
                   business_days_counted>>
    /\ UNCHANGED <<cfgVars, scanVars, runVars>>

NextBD ==
    \/ BdStep
    \/ BdReturn

SpecBD == InitBD /\ [][NextBD]_vars

----------------------------------------------------------------------------
(* AutomatedUserManager.run_analysis, with the client calls it makes *)

D_2025_07_08 == D_2025_07_07 + 1

\* a record of the usage endpoint that has no 'isActive' key
NoKey == "<no key>"

Roles == {"member", "owner", "free-owner"}

\* the answers of the members endpoint: each user at most once, any role
MemberLists ==
    {<<>>}
    \cup {<<[email |-> u, role |-> r]>> : u \in {Users[1], Users[2]}, r \in Roles}
    \cup {<<[email |-> Users[1], role |-> r1], [email |-> Users[2], role |-> r2]>> :
            r1 \in Roles, r2 \in Roles}

\* the answers of the usage endpoint for one user: at most n records on
\* increasing dates, the date a timestamp, 0 or null
UsageLists(u, dates, flags, n) ==
    {s \in UNION {[1..k -> [email : {u}, date : dates, isActive : flags]] :
                    k \in 0..n} :
        \A i \in 1..(Len(s) - 1) : s[i].date < s[i + 1].date}

GetTeamMembersAll(members) == members

\* the list comprehension of get_team_members
GetTeamMembers(members) ==
    SelectSeq(members, LAMBDA member : member.role \notin {"free-owner", "owner"})

\* the transformation loop of get_user_activity
TransformRecord(record, start_date) ==
    [user_email |-> record.email,
     date |-> IF record.date = None \/ record.date = 0
              THEN start_date
              ELSE record.date,
     is_active |-> record.isActive]

GetUserActivity(data, start_date) ==
    LET kept == SelectSeq(data, LAMBDA record : record.isActive # NoKey)
    IN  [i \in 1..Len(kept) |-> TransformRecord(kept[i], start_date)]

RemoveUserFromTeamSucceeds(user_email) == TRUE

\* remove_user_from_team: warns and returns False on every path
RemoveUserFromTeam(user_email) == FALSE

\* the line log_action writes
LogAction(action, user_email, group_name, dry) ==
    [status |-> IF dry THEN "DRY_RUN" ELSE "EXECUTED",
     action |-> action,
     user_email |-> user_email,
     group_name |-> group_name]

\* a call of run_analysis: the clock, the configuration, the two endpoints
InitRun ==
    /\ engine = "api"
    /\ excluded_dates \in Holidays
    /\ exclude_weekends = TRUE
    /\ inactive_threshold \in 1..MaxThreshold
    /\ analysis_start_date = None
    /\ activity_data = <<>>
    /\ ScanIdle
    /\ pc = "off"
    /\ end_date = D_2025_07_08
    /\ target_business_days = MaxTarget
    /\ current_date = end_date
    /\ business_days_counted = 0
    /\ bd_pc = "loop"
    /\ dry_run \in BOOLEAN
    /\ all_members \in MemberLists
    /\ api_data \in
         {a \o b :
            a \in UsageLists(Users[1], {D_1970_01_01, D_2025_07_03, D_2025_07_07},
                             {PyTrue, PyFalse}, MaxRunLen),
            b \in UsageLists(Users[2], {D_2025_07_03},
                             {PyTrue, PyFalse, NoKey}, 1)}
    /\ actions_taken = <<>>
    /\ audit_log = <<>>
    /\ remove_calls = <<>>
    /\ next_user = 0
    /\ run_pc = "start"

\* the start date is back from the counter: fetch the members and the
\* activity, return early on no activity, else filter and call the analyzer
RunFetch ==
    /\ run_pc = "start"
    /\ bd_pc = "returned"
    /\ LET start_date == current_date
           team_members == GetTeamMembers(all_members)
           team_member_emails ==
               {team_members[i].email : i \in 1..Len(team_members)}
           fetched == GetUserActivity(api_data, start_date)
       IN  IF fetched = <<>>
           THEN /\ run_pc' = "returned"
                /\ UNCHANGED <<activity_data, analysis_start_date, pc>>
           ELSE /\ activity_data' =
                     SelectSeq(fetched,
                               LAMBDA record : record.user_email \in team_member_emails)
                /\ analysis_start_date' = start_date
                /\ pc' = "call"
                /\ run_pc' = "analyze"
    /\ UNCHANGED <<engine, excluded_dates, exclude_weekends, inactive_threshold>>
    /\ UNCHANGED <<df, emails, email, user_data, row, has_epoch_dates,
                   consecutive_inactive_days, max_consecutive_inactive,
                   inactive_start_date, last_active_date, total_days,
                   active_days, inactive_days, user_reports, inactive_users>>
    /\ UNCHANGED <<dry_run, all_members, api_data, actions_taken, audit_log,
                   remove_calls, next_user>>
    /\ UNCHANGED bdVars

\* the analyzer is back: actions_taken = [] and the loop begins
RunBeginLoop ==
    /\ run_pc = "analyze"
    /\ pc = "done"
    /\ actions_taken' = <<>>
    /\ next_user' = 1
    /\ run_pc' = "loop"
    /\ UNCHANGED <<dry_run, all_members, api_data, audit_log, remove_calls>>
    /\ UNCHANGED <<cfgVars, scanVars, bdVars>>

\* one iteration of: for user in inactive_users
RunProcessUser ==
    /\ run_pc = "loop"
    /\ next_user <= Len(inactive_users)
    /\ LET user == inactive_users[next_user]
           action == [action |-> "FLAG_FOR_REMOVAL",
                      user_email |-> user.email,
                      group_name |-> "Cursor Team",
                      days |-> user.consecutive_inactive_days]
       IN  IF ~dry_run
           THEN /\ remove_calls' = Append(remove_calls, user.email)
                /\ IF RemoveUserFromTeam(user.email)
                   THEN /\ actions_taken' = Append(actions_taken, action)
                        /\ audit_log' =
                             Append(audit_log,
                                    LogAction(action.action, user.email,
                                              "Cursor Team", FALSE))
                   ELSE /\ actions_taken' = Append(actions_taken, action)
                        /\ audit_log' =
                             Append(audit_log,
                                    LogAction("MANUAL_REMOVAL_REQUIRED", user.email,
                                              "Cursor Team", FALSE))
           ELSE /\ actions_taken' = Append(actions_taken, action)
                /\ audit_log' =
                     Append(audit_log,
                            LogAction(action.action, user.email, "Cursor Team",
                                      TRUE))
                /\ UNCHANGED remove_calls
    /\ next_user' = next_user + 1
    /\ UNCHANGED <<dry_run, all_members, api_data, run_pc>>
    /\ UNCHANGED <<cfgVars, scanVars, bdVars>>

\* return analysis_results, actions_taken
RunReturn ==
    /\ run_pc = "loop"
    /\ next_user > Len(inactive_users)
    /\ run_pc' = "returned"
    /\ UNCHANGED <<dry_run, all_members, api_data, actions_taken, audit_log,
                   remove_calls, next_user>>
    /\ UNCHANGED <<cfgVars, scanVars, bdVars>>

NextRun ==
    \/ BdStep
    \/ BdReturn
    \/ RunFetch
    \/ ApiAnalyze
    \/ ApiBeginUser
    \/ ApiScanRow
    \/ ApiEndUser
    \/ ApiReturn
    \/ RunBeginLoop
    \/ RunProcessUser
    \/ RunReturn

SpecRun == InitRun /\ [][NextRun]_vars

----------------------------------------------------------------------------
(* Vocabulary of the properties *)

\* the exclusion policy: a holiday, or a weekend day when weekends are excluded
Excluded(d) ==
    \/ d \in excluded_dates
    \/ exclude_weekends /\ Weekday(d) \in {5, 6}

UserSet == {Users[i] : i \in 1..Len(Users)}

\* the input records of user u, in date order
RecordsOf(u) == RowsOf(activity_data, u)

RemoveAt(s, i) == SubSeq(s, 1, i - 1) \o SubSeq(s, i + 1, Len(s))

ReportsOf(u) == {i \in 1..Len(user_reports) : user_reports[i].email = u}

FlagsOf(u) == {j \in 1..Len(inactive_users) : inactive_users[j].email = u}

\* the scan of the current user is over
Scanned == pc = "rows" /\ row > Len(user_data)

\* the row the scan is about to process
AtRow == pc = "rows" /\ row <= Len(user_data)

----------------------------------------------------------------------------
(* C1: in both engines, the scan step on a record that is on an excluded   *)
(* date and is active sets consecutive_inactive_days to 0,                 *)
(* inactive_start_date to None and last_active_date to that date.          *)
C1_ExcludedActiveResets ==
    [][(/\ AtRow
        /\ Excluded(user_data[row].date)
        /\ user_data[row].is_active = PyTrue)
       => (/\ consecutive_inactive_days' = 0
           /\ inactive_start_date' = None
           /\ last_active_date' = user_data[row].date)]_vars

(* C2: when the analysis returns, a user has a flag if and only if the     *)
(* current_consecutive_inactive of the user's report is at least the       *)
(* threshold; a user has at most one flag, and the flag carries the        *)
(* report's current_consecutive_inactive.                                  *)
C2_FlaggedIffAtThreshold ==
    pc = "done" =>
      \A u \in UserSet :
        /\ Cardinality(FlagsOf(u)) <= 1
        /\ (FlagsOf(u) # {}) <=>
             (\E i \in ReportsOf(u) :
                user_reports[i].current_consecutive_inactive >= inactive_threshold)
        /\ \A j \in FlagsOf(u) : \A i \in ReportsOf(u) :
             inactive_users[j].consecutive_inactive_days =
               user_reports[i].current_consecutive_inactive

C2_Witness ==
    /\ pc = "done"
    /\ FlagsOf(Users[1]) # {}
    /\ ReportsOf(Users[2]) # {}
    /\ FlagsOf(Users[2]) = {}
    /\ inactive_threshold >= 1

\* every record of user u is on a counted date and has the activity b
AllCounted(u, b) ==
    \A i \in 1..Len(RecordsOf(u)) :
      /\ ~Excluded(RecordsOf(u)[i].date)
      /\ RecordsOf(u)[i].is_active = b

(* C3: a user whose k records are all on counted dates and all inactive    *)
(* is reported with current_consecutive_inactive = k and                   *)
(* max_consecutive_inactive = k.                                           *)
C3_AllInactiveCountsAll ==
    pc = "done" =>
      \A u \in UserSet : \A i \in ReportsOf(u) :
        AllCounted(u, PyFalse) =>
          /\ user_reports[i].current_consecutive_inactive = Len(RecordsOf(u))
          /\ user_reports[i].max_consecutive_inactive = Len(RecordsOf(u))

C3_Witness ==
    /\ pc = "done"
    /\ AllCounted(Users[1], PyFalse)
    /\ Len(RecordsOf(Users[1])) = MaxLen
    /\ ReportsOf(Users[1]) # {}

(* C4: with a threshold above 0, a user whose records are all on counted   *)
(* dates and all active is reported with current_consecutive_inactive = 0  *)
(* and max_consecutive_inactive = 0 and is not flagged.                    *)
C4_AllActiveNeverFlagged ==
    (pc = "done" /\ inactive_threshold > 0) =>
      \A u \in UserSet :
        AllCounted(u, PyTrue) =>
          /\ FlagsOf(u) = {}
          /\ \A i \in ReportsOf(u) :
               /\ user_reports[i].current_consecutive_inactive = 0
               /\ user_reports[i].max_consecutive_inactive = 0

C4_Witness ==
    /\ pc = "done"
    /\ inactive_threshold > 0
    /\ AllCounted(Users[1], PyTrue)
    /\ Len(RecordsOf(Users[1])) >= 2
    /\ ReportsOf(Users[1]) # {}

(* C5: when the scan of a user is over, the four streak variables equal    *)
(* those of the scan of the same rows with any one excluded-and-inactive   *)
(* row left out.                                                           *)
C5_ExcludedInactiveTransparent ==
    Scanned =>
      \A i \in 1..Len(user_data) :
        (Excluded(user_data[i].date) /\ user_data[i].is_active = PyFalse) =>
          CurrentStreak = Scan(engine, RemoveAt(user_data, i), excluded_dates,
                               exclude_weekends)

C5_Witness ==
    /\ Scanned
    /\ Len(user_data) = 3
    /\ Excluded(user_data[2].date)
    /\ user_data[2].is_active = PyFalse
    /\ consecutive_inactive_days = 2

\* the days of [a, b] the policy counts
CountedDays(a, b) == {d \in a..b : ~Excluded(d)}

(* C6: for a target of at least 1 the back-counter returns a counted day,  *)
(* and exactly target counted days lie between it and the end date,        *)
(* both included.                                                          *)
C6_ReturnsTargetthBusinessDay ==
    (bd_pc = "returned" /\ target_business_days >= 1) =>
      /\ ~Excluded(current_date)
      /\ Cardinality(CountedDays(current_date, end_date)) = target_business_days

\* user u has a record dated in 1970
HasSentinel(u) ==
    \E i \in 1..Len(RecordsOf(u)) :
      RecordsOf(u)[i].date \in D_1970_01_01..(D_1970_01_01 + 364)

WindowStartOrUnknown ==
    IF analysis_start_date # None THEN Strftime(analysis_start_date) ELSE Unknown

(* C7: analyze_activity gives a flagged user who has a 1970 record the     *)
(* analysis start date as inactive_since when one was supplied and         *)
(* 'Unknown' otherwise; it is never the 1970 date.                         *)
C7_SentinelSinceWindowStart ==
    (pc = "done" /\ engine = "api") =>
      \A u \in UserSet : \A j \in FlagsOf(u) :
        HasSentinel(u) =>
          /\ inactive_users[j].inactive_since = WindowStartOrUnknown
          /\ \A i \in 1..Len(RecordsOf(u)) :
               Year(RecordsOf(u)[i].date) = 1970 =>
                 inactive_users[j].inactive_since # Strftime(RecordsOf(u)[i].date)

C7_Witness ==
    /\ pc = "done"
    /\ engine = "api"
    /\ analysis_start_date # None
    /\ HasSentinel(Users[1])
    /\ \E j \in FlagsOf(Users[1]) :
         /\ inactive_users[j].consecutive_inactive_days >= 2
         /\ inactive_users[j].inactive_since = Strftime(analysis_start_date)

\* user u has no active record on a counted date
NeverActiveOnCountedDay(u) ==
    \A i \in 1..Len(RecordsOf(u)) :
      RecordsOf(u)[i].is_active = PyTrue => Excluded(RecordsOf(u)[i].date)

(* C8: a flagged user with no active record on a counted day has the       *)
(* analysis start date as inactive_since whenever one was supplied, and    *)
(* 'Unknown' only when none was.                                           *)
C8_NeverActiveSinceWindowStart ==
    pc = "done" =>
      \A u \in UserSet : \A j \in FlagsOf(u) :
        NeverActiveOnCountedDay(u) =>
          /\ analysis_start_date # None =>
               inactive_users[j].inactive_since = Strftime(analysis_start_date)
          /\ inactive_users[j].inactive_since = Unknown =>
               analysis_start_date = None

(* C9: when analyze_activity has scanned a user, consecutive_inactive_days, *)
(* max_consecutive_inactive and inactive_start_date equal those of the     *)
(* scan of the same rows with any one 1970-dated row left out.             *)
C9_SentinelNoInformation ==
    (Scanned /\ engine = "api") =>
      \A i \in 1..Len(user_data) :
        Year(user_data[i].date) = 1970 =>
          LET without == Scan(engine, RemoveAt(user_data, i), excluded_dates,
                              exclude_weekends)
          IN  /\ consecutive_inactive_days = without.consecutive_inactive_days
              /\ max_consecutive_inactive = without.max_consecutive_inactive
              /\ inactive_start_date = without.inactive_start_date

(* C10: with a threshold of 0 or less, every user who has a record on a    *)
(* counted day is flagged.                                                 *)
C10_NonPositiveThresholdFlagsAll ==
    (pc = "done" /\ inactive_threshold <= 0) =>
      \A u \in UserSet :
        (\E i \in 1..Len(RecordsOf(u)) : ~Excluded(RecordsOf(u)[i].date)) =>
          FlagsOf(u) # {}

C10_Witness ==
    /\ pc = "done"
    /\ inactive_threshold = 0
    /\ \E j \in FlagsOf(Users[1]) :
         inactive_users[j].consecutive_inactive_days = 0
    /\ \E i \in 1..Len(RecordsOf(Users[1])) :
         /\ ~Excluded(RecordsOf(Users[1])[i].date)
         /\ RecordsOf(Users[1])[i].is_active = PyTrue

----------------------------------------------------------------------------
(* C11: every report has total_days = the number of the user's records,    *)
(* excluded dates included, active_days = the number of them that are      *)
(* active and inactive_days = total_days - active_days, whatever the       *)
(* exclusion policy of the run.                                            *)
C11_TotalsCountAllRecords ==
    pc = "done" =>
      \A u \in UserSet : \A i \in ReportsOf(u) :
        /\ user_reports[i].total_days = Len(RecordsOf(u))
        /\ user_reports[i].active_days =
             Cardinality({k \in 1..Len(RecordsOf(u)) :
                            RecordsOf(u)[k].is_active = PyTrue})
        /\ user_reports[i].inactive_days =
             user_reports[i].total_days - user_reports[i].active_days

C11_Witness ==
    /\ pc = "done"
    /\ \E i \in ReportsOf(Users[1]) : user_reports[i].total_days = 3
    /\ \E k \in 1..Len(RecordsOf(Users[1])) :
         /\ Excluded(RecordsOf(Users[1])[k].date)
         /\ RecordsOf(Users[1])[k].is_active = PyTrue
    /\ \E k \in 1..Len(RecordsOf(Users[1])) :
         /\ Excluded(RecordsOf(Users[1])[k].date)
         /\ RecordsOf(Users[1])[k].is_active = PyFalse

\* the users the engine flags on the run's records and policy at threshold t
FlaggedAt(t) ==
    {u \in UserSet :
       /\ RecordsOf(u) # <<>>
       /\ LET c == Scan(engine, RecordsOf(u), excluded_dates,
                        exclude_weekends).consecutive_inactive_days
          IN  IF engine = "csv" THEN CsvMeetsThreshold(c, t)
              ELSE ApiMeetsThreshold(c, t)}

Flagged == {u \in UserSet : FlagsOf(u) # {}}

(* C12: on the same records and policy, the users flagged by the run are   *)
(* flagged at every lower threshold, and the users flagged at any higher   *)
(* threshold are among the users flagged by the run.                       *)
C12_MonotonicFlagging ==
    pc = "done" =>
      \A t \in Thresholds :
        /\ t < inactive_threshold => Flagged \subseteq FlaggedAt(t)
        /\ t > inactive_threshold => FlaggedAt(t) \subseteq Flagged

C12_Witness ==
    /\ pc = "done"
    /\ inactive_threshold = 1
    /\ Flagged = {Users[1]}
    /\ FlaggedAt(0) = {Users[1], Users[2]}
    /\ FlaggedAt(2) = {}

----------------------------------------------------------------------------
(* Unordered inputs: any sequence of records, dates repeated or not, cells *)
(* of is_active empty or not                                               *)

\* the empty is_active cell an engine can meet: NaN in a CSV, null in JSON
MissingCell(eng) == IF eng = "csv" THEN NaN ELSE PyNone

RawRecords(eng) ==
    [user_email : {Users[1]}, date : {D_2025_07_03, D_2025_07_05},
     is_active : {PyTrue, PyFalse, MissingCell(eng)}]
    \cup
    [user_email : {Users[2]}, date : {D_2025_07_03},
     is_active : {PyTrue, PyFalse}]

InitRaw ==
    /\ engine \in {"csv", "api"}
    /\ excluded_dates = {}
    /\ exclude_weekends \in BOOLEAN
    /\ inactive_threshold \in 1..2
    /\ analysis_start_date = None
    /\ activity_data \in UNION {[1..k -> RawRecords(engine)] : k \in 0..MaxRaw}
    /\ ScanIdle
    /\ pc = "call"
    /\ BdIdle
    /\ RunIdle

SpecRaw == InitRaw /\ [][Next]_vars

\* the records of user u, as a set
RecordSet(u) ==
    {activity_data[i] : i \in {k \in 1..Len(activity_data) :
                                 activity_data[k].user_email = u}}

\* user u has no two records on one date
DistinctDates(u) ==
    \A i, j \in 1..Len(RecordsOf(u)) :
      i # j => RecordsOf(u)[i].date # RecordsOf(u)[j].date

\* the records of a set with distinct dates, by increasing date
InDateOrder(S) ==
    CHOOSE s \in [1..Cardinality(S) -> S] :
      \A i, j \in 1..Cardinality(S) : i < j => s[i].date < s[j].date

InactiveSinceOf(st, rows) ==
    IF engine = "csv" THEN CsvInactiveSince(st)
    ELSE ApiInactiveSince(st, HasEpochDates(rows), analysis_start_date)

(* C13: whatever the order of the input, a user with distinct dates is     *)
(* reported and flagged as the scan of the user's records by increasing    *)
(* date decides, and the reports come in the order of the emails: the      *)
(* results depend on the set of records only.                              *)
C13_InputOrderIrrelevant ==
    pc = "done" =>
      /\ \A i, j \in 1..Len(user_reports) :
           i < j => EmailRank(user_reports[i].email) < EmailRank(user_reports[j].email)
      /\ \A u \in UserSet :
           DistinctDates(u) =>
             LET rows == InDateOrder(RecordSet(u))
                 st == Scan(engine, rows, excluded_dates, exclude_weekends)
             IN  /\ Cardinality(ReportsOf(u)) = IF RecordSet(u) = {} THEN 0 ELSE 1
                 /\ \A i \in ReportsOf(u) :
                      /\ user_reports[i].total_days = Cardinality(RecordSet(u))
                      /\ user_reports[i].current_consecutive_inactive =
                           st.consecutive_inactive_days
                      /\ user_reports[i].max_consecutive_inactive =
                           st.max_consecutive_inactive
                      /\ user_reports[i].last_active_date =
                           FmtOrNever(st.last_active_date)
                 /\ (FlagsOf(u) # {}) <=>
                      (/\ RecordSet(u) # {}
                       /\ st.consecutive_inactive_days >= inactive_threshold)
                 /\ \A j \in FlagsOf(u) :
                      /\ inactive_users[j].consecutive_inactive_days =
                           st.consecutive_inactive_days
                      /\ inactive_users[j].inactive_since = InactiveSinceOf(st, rows)

C13_Witness ==
    /\ pc = "done"
    /\ Len(activity_data) = 3
    /\ activity_data[1].user_email = Users[2]
    /\ activity_data[2].user_email = Users[1]
    /\ activity_data[3].user_email = Users[1]
    /\ activity_data[2].date > activity_data[3].date
    /\ activity_data[2].is_active = PyFalse
    /\ activity_data[3].is_active = PyTrue
    /\ Len(user_reports) = 2
    /\ Flagged = {Users[1]}

\* the rows of s that are the first of their date, in the order of s
RECURSIVE FirstSeen(_)
FirstSeen(s) ==
    IF s = <<>> THEN <<>>
    ELSE LET front == SubSeq(s, 1, Len(s) - 1)
         IN  IF \E i \in 1..Len(front) : front[i].date = s[Len(s)].date
             THEN FirstSeen(front)
             ELSE Append(FirstSeen(front), s[Len(s)])

(* C14: the engines accept every input, so only the first-seen record of   *)
(* a (user, date) may affect the result: the totals and the streak of a    *)
(* report are those of the user's first-seen records.                      *)
C14_DuplicateDateCountsOnce ==
    pc = "done" =>
      \A u \in UserSet : \A i \in ReportsOf(u) :
        LET first == FirstSeen(RecordsOf(u))
            st == Scan(engine, SortValues(first), excluded_dates, exclude_weekends)
        IN  /\ user_reports[i].total_days = Len(first)
            /\ user_reports[i].active_days = CountActive(first)
            /\ user_reports[i].inactive_days = Len(first) - CountActive(first)
            /\ user_reports[i].current_consecutive_inactive =
                 st.consecutive_inactive_days

\* the rows of s whose is_active cell holds True or False
RECURSIVE Present(_)
Present(s) ==
    IF s = <<>> THEN <<>>
    ELSE LET front == Present(SubSeq(s, 1, Len(s) - 1))
         IN  IF s[Len(s)].is_active \in {PyTrue, PyFalse}
             THEN Append(front, s[Len(s)])
             ELSE front

(* C17: the engines end no run with a validation error, so a record whose  *)
(* is_active is missing may count neither as an active nor as an inactive  *)
(* day: after a user's scan the streak is that of the rows whose is_active *)
(* is present, active_days the number of True rows and inactive_days the   *)
(* number of False rows.                                                   *)
C17_MissingIsActiveNeverCounted ==
    Scanned =>
      /\ CurrentStreak = Scan(engine, Present(user_data), excluded_dates,
                              exclude_weekends)
      /\ active_days =
           Cardinality({i \in 1..Len(user_data) : user_data[i].is_active = PyTrue})
      /\ inactive_days =
           Cardinality({i \in 1..Len(user_data) : user_data[i].is_active = PyFalse})

----------------------------------------------------------------------------
(* The two-week scenario: one record of u1 on each calendar date from      *)
(* 2025-07-01, as many as the default threshold                            *)

\* inactive_threshold=14, the default of both engines
DefaultThreshold == 14

\* the records of the scenario, all inactive but for 2025-07-07, which is a7
ScenarioRecords(a7) ==
    [i \in 1..DefaultThreshold |->
       [user_email |-> Users[1],
        date |-> D_2025_07_01 + i - 1,
        is_active |-> IF D_2025_07_01 + i - 1 = D_2025_07_07 THEN a7 ELSE PyFalse]]

InitScenario ==
    /\ engine \in {"csv", "api"}
    /\ excluded_dates \in {{}, {D_2025_07_04, D_2025_07_07}}
    /\ exclude_weekends \in BOOLEAN
    /\ inactive_threshold \in {DefaultThreshold, DefaultThreshold - 4}
    /\ analysis_start_date = None
    /\ activity_data \in {ScenarioRecords(a7) : a7 \in {PyTrue, PyFalse}}
    /\ ScanIdle
    /\ pc = "call"
    /\ BdIdle
    /\ RunIdle

SpecScenario == InitScenario /\ [][Next]_vars

AllInactiveNoHolidays ==
    /\ activity_data = ScenarioRecords(PyFalse)
    /\ excluded_dates = {}

(* C15, as claimed: with threshold 14, weekends excluded and no holidays,  *)
(* the user of the scenario is flagged with 14 consecutive inactive days   *)
(* since 2025-07-01.                                                       *)
C15_ScenarioFlaggedWith14 ==
    (/\ pc = "done"
     /\ AllInactiveNoHolidays
     /\ exclude_weekends
     /\ inactive_threshold = DefaultThreshold) =>
      \E j \in FlagsOf(Users[1]) :
        /\ inactive_users[j].consecutive_inactive_days = 14
        /\ inactive_users[j].inactive_since = <<2025, 7, 1>>

(* C15, amended: 2025-07-05, 07-06, 07-12 and 07-13 are weekend days, so   *)
(* with weekends excluded the user is reported with 10 consecutive         *)
(* inactive days and is flagged exactly when the threshold is at most 10,  *)
(* then with 10 days since 2025-07-01; with weekends counted the user is   *)
(* flagged with 14 days since 2025-07-01.                                  *)
C15_ScenarioCountsTenWeekdays ==
    (pc = "done" /\ AllInactiveNoHolidays) =>
      LET n == IF exclude_weekends THEN 10 ELSE 14
      IN  /\ \A i \in ReportsOf(Users[1]) :
               user_reports[i].current_consecutive_inactive = n
          /\ Cardinality(ReportsOf(Users[1])) = 1
          /\ (FlagsOf(Users[1]) # {}) <=> (inactive_threshold <= n)
          /\ \A j \in FlagsOf(Users[1]) :
               /\ inactive_users[j].consecutive_inactive_days = n
               /\ inactive_users[j].inactive_since = <<2025, 7, 1>>

C15_Witness ==
    /\ pc = "done"
    /\ AllInactiveNoHolidays
    /\ exclude_weekends
    /\ inactive_threshold = DefaultThreshold
    /\ FlagsOf(Users[1]) = {}
    /\ \E i \in ReportsOf(Users[1]) :
         user_reports[i].current_consecutive_inactive = 10

----------------------------------------------------------------------------
(* C18: every iteration of the back-counter counts its day exactly when    *)
(* analyze_activity's exclusion test, on the analyzer's excluded_dates and *)
(* exclude_weekends, does not exclude that day.                            *)
C18_SameExclusionPredicate ==
    [][(bd_pc = "loop" /\ business_days_counted < target_business_days)
       => ((business_days_counted' = business_days_counted + 1)
             <=> ~ApiIsExcluded(current_date, excluded_dates, exclude_weekends))]_vars

----------------------------------------------------------------------------
\* the flag the engine called builds from a streak
FlagOf(u, st, rows) ==
    IF engine = "csv"
    THEN [email |-> u,
          consecutive_inactive_days |-> st.consecutive_inactive_days,
          inactive_since |-> CsvInactiveSince(st),
          max_consecutive_inactive |-> st.max_consecutive_inactive,
          last_active_date |-> FmtOrNever(st.last_active_date)]
    ELSE [email |-> u,
          consecutive_inactive_days |-> st.consecutive_inactive_days,
          inactive_since |-> ApiInactiveSince(st, HasEpochDates(rows),
                                              analysis_start_date),
          last_active_date |-> FmtOrNever(st.last_active_date)]

(* C19: the report and the flag of a user are those of the scan of the     *)
(* user's own records from the initial streak, whatever records the other  *)
(* user has and whatever the scan of the user before left behind.          *)
C19_UsersIndependent ==
    pc = "done" =>
      \A u \in UserSet :
        LET own == RecordsOf(u)
            st == Scan(engine, own, excluded_dates, exclude_weekends)
        IN  /\ Cardinality(ReportsOf(u)) = IF own = <<>> THEN 0 ELSE 1
            /\ \A i \in ReportsOf(u) :
                 user_reports[i] =
                   [email |-> u,
                    total_days |-> Len(own),
                    active_days |-> CountActive(own),
                    inactive_days |-> Len(own) - CountActive(own),
                    current_consecutive_inactive |-> st.consecutive_inactive_days,
                    max_consecutive_inactive |-> st.max_consecutive_inactive,
                    last_active_date |-> FmtOrNever(st.last_active_date)]
            /\ FlagsOf(u) # {} =>
                 /\ own # <<>>
                 /\ st.consecutive_inactive_days >= inactive_threshold
            /\ \A j \in FlagsOf(u) : inactive_users[j] = FlagOf(u, st, own)

C19_Witness ==
    /\ pc = "done"
    /\ Len(user_reports) = 2
    /\ user_reports[1].current_consecutive_inactive = 2
    /\ user_reports[1].last_active_date # Never
    /\ user_reports[2].current_consecutive_inactive = 1
    /\ user_reports[2].max_consecutive_inactive = 1
    /\ user_reports[2].last_active_date = Never
    /\ Flagged = {Users[1]}

\* row r resets the streak of the engine called: an active row, which
\* analyze_activity must also find on a counted date
Resets(r) ==
    /\ r.is_active = PyTrue
    /\ engine = "csv" \/ ~Excluded(r.date)

\* the index of the last row of rows that reset the streak, or 0
LastReset(rows) ==
    LET R == {i \in 1..Len(rows) : Resets(rows[i])}
    IN  IF R = {} THEN 0 ELSE CHOOSE i \in R : \A k \in R : k <= i

\* the counted inactive rows after the last reset: the current streak
StreakRows(rows) ==
    {i \in (LastReset(rows) + 1)..Len(rows) :
       ~Excluded(rows[i].date) /\ rows[i].is_active = PyFalse}

\* the date of the first row of the current streak, or None
StreakStart(rows) ==
    IF StreakRows(rows) = {} THEN None
    ELSE rows[CHOOSE i \in StreakRows(rows) :
                \A k \in StreakRows(rows) : i <= k].date

\* analyze_activity takes user u for never active
TreatedNeverActive(u) ==
    /\ engine = "api"
    /\ \/ HasSentinel(u)
       \/ StreakStart(RecordsOf(u)) = None /\ NeverActiveOnCountedDay(u)

(* C20: after a user's scan inactive_start_date is the date of the first   *)
(* counted inactive row after the last row that reset the streak (None     *)
(* when there is no such row), and the flag of a user not taken for never  *)
(* active carries that date as inactive_since ('Unknown' when None).       *)
C20_InactiveSinceIsStreakStart ==
    /\ Scanned => inactive_start_date = StreakStart(user_data)
    /\ pc = "done" =>
         \A u \in UserSet : \A j \in FlagsOf(u) :
           ~TreatedNeverActive(u) =>
             inactive_users[j].inactive_since =
               IF StreakStart(RecordsOf(u)) = None THEN Unknown
               ELSE Strftime(StreakStart(RecordsOf(u)))

C20_Witness ==
    /\ pc = "done"
    /\ ~TreatedNeverActive(Users[1])
    /\ Len(RecordsOf(Users[1])) = 3
    /\ StreakRows(SubSeq(RecordsOf(Users[1]), 1, 1)) = {1}
    /\ LastReset(RecordsOf(Users[1])) = 2
    /\ \E j \in FlagsOf(Users[1]) :
         /\ inactive_users[j].consecutive_inactive_days = 1
         /\ inactive_users[j].inactive_since = Strftime(RecordsOf(Users[1])[3].date)

----------------------------------------------------------------------------
(* run_analysis and the removal of flagged users *)

\* the flagged users the loop of run_analysis has been through
Processed == 1..(next_user - 1)

\* an audit line that reports a removal as carried out
ExecutedRemoval(entry) ==
    entry.status = "EXECUTED" /\ entry.action = "FLAG_FOR_REMOVAL"

\* C16: run_analysis never executes a real removal.  While the loop runs and
\* after it, every flagged user the loop has been through has exactly one
\* action in actions_taken and exactly one audit line, and at the return
\* that is every flagged user.  In dry-run mode remove_user_from_team is
\* never called and every line has status DRY_RUN.  In non-dry-run mode
\* remove_user_from_team is called once per flagged user and returns False,
\* so the line logged is MANUAL_REMOVAL_REQUIRED.  No line ever reports an
\* executed FLAG_FOR_REMOVAL.
C16_NoRealRemoval ==
    /\ \A j \in 1..Len(audit_log) : ~ExecutedRemoval(audit_log[j])
    /\ run_pc \in {"loop", "returned"} /\ pc = "done" =>
         /\ Len(actions_taken) = next_user - 1
         /\ Len(audit_log) = next_user - 1
         /\ \A j \in Processed :
              /\ actions_taken[j].user_email = inactive_users[j].email
              /\ actions_taken[j].action = "FLAG_FOR_REMOVAL"
              /\ audit_log[j].user_email = inactive_users[j].email
              /\ \A k \in Processed :
                   inactive_users[k].email = inactive_users[j].email => k = j
         /\ run_pc = "returned" => next_user - 1 = Len(inactive_users)
         /\ dry_run =>
              /\ remove_calls = <<>>
              /\ \A j \in Processed : audit_log[j].status = "DRY_RUN"
         /\ ~dry_run =>
              /\ Len(remove_calls) = next_user - 1
              /\ \A j \in Processed :
                   /\ remove_calls[j] = inactive_users[j].email
                   /\ ~RemoveUserFromTeam(remove_calls[j])
                   /\ audit_log[j].action = "MANUAL_REMOVAL_REQUIRED"
    /\ run_pc \notin {"loop", "returned"} \/ pc # "done" =>
         /\ actions_taken = <<>>
         /\ audit_log = <<>>
         /\ remove_calls = <<>>

\* a non-dry run has returned with two users flagged, each reported once as
\* needing manual removal
C16_Witness ==
    /\ run_pc = "returned"
    /\ pc = "done"
    /\ ~dry_run
    /\ Len(inactive_users) = 2
    /\ Len(remove_calls) = 2
    /\ \A j \in 1..2 : audit_log[j].action = "MANUAL_REMOVAL_REQUIRED"

\* a dry run has returned with a user flagged and a simulated line
C16_WitnessDryRun ==
    /\ run_pc = "returned"
    /\ dry_run
    /\ Len(actions_taken) >= 1
    /\ audit_log[1].status = "DRY_RUN"
    /\ audit_log[1].action = "FLAG_FOR_REMOVAL"

----------------------------------------------------------------------------
(* run_analysis and the owners of the team *)

\* the emails the members endpoint returned with one of the roles
EmailsWithRole(roles) ==
    {all_members[i].email : i \in {k \in 1..Len(all_members) :
                                     all_members[k].role \in roles}}

Owners == EmailsWithRole({"owner", "free-owner"})

\* the user has a usage record the client keeps
HasUsage(u) ==
    \E i \in 1..Len(api_data) : api_data[i].email = u /\ api_data[i].isActive # NoKey

\* the user appears somewhere in the analysis or in what follows it
Touched(u) ==
    \/ \E i \in 1..Len(activity_data) : activity_data[i].user_email = u
    \/ \E i \in 1..Len(df) : df[i].user_email = u
    \/ \E i \in 1..Len(emails) : emails[i] = u
    \/ email = u
    \/ ReportsOf(u) # {}
    \/ FlagsOf(u) # {}
    \/ \E j \in 1..Len(actions_taken) : actions_taken[j].user_email = u
    \/ \E j \in 1..Len(audit_log) : audit_log[j].user_email = u
    \/ \E j \in 1..Len(remove_calls) : remove_calls[j] = u

\* C21: in a run of run_analysis no owner or free-owner is ever analysed,
\* flagged or placed in actions_taken: the records handed to the analyzer
\* are those of the emails get_team_members returned, which has dropped the
\* two roles.  When the members endpoint gave nothing, no user is flagged.
C21_OwnersNeverTouched ==
    /\ \A u \in Owners : ~Touched(u)
    /\ \A u \in UserSet : Touched(u) => u \in EmailsWithRole({"member"})
    /\ all_members = <<>> =>
         /\ inactive_users = <<>>
         /\ actions_taken = <<>>
         /\ audit_log = <<>>

\* a run has returned in which an owner with nothing but inactive usage was
\* left alone while a plain member was flagged and acted upon
C21_Witness ==
    /\ run_pc = "returned"
    /\ pc = "done"
    /\ Users[1] \in Owners
    /\ HasUsage(Users[1])
    /\ \A i \in 1..Len(api_data) : api_data[i].isActive = PyFalse
    /\ FlagsOf(Users[2]) # {}
    /\ Len(actions_taken) = 1

\* a run has returned with usage records but no member: nobody is flagged
C21_WitnessNoMembers ==
    /\ run_pc = "returned"
    /\ pc = "done"
    /\ all_members = <<>>
    /\ HasUsage(Users[1])
    /\ \A i \in 1..Len(api_data) : api_data[i].isActive = PyFalse

----------------------------------------------------------------------------
(* The last active date of a report *)

\* the dates of the rows whose is_active is True
ActiveDates(rows) ==
    {rows[i].date : i \in {k \in 1..Len(rows) : rows[k].is_active = PyTrue}}

\* the largest member of a non-empty set of dates
Latest(dates) == CHOOSE d \in dates : \A e \in dates : e <= d

\* C22: in every user report, last_active_date is 'Never' if and only if
\* active_days is 0; otherwise it is the latest date among the user's
\* records with is_active true, a record on an excluded date included.
C22_LastActiveIsLatestActiveRecord ==
    pc = "done" =>
      \A u \in UserSet : \A i \in ReportsOf(u) :
        /\ user_reports[i].last_active_date = Never
             <=> user_reports[i].active_days = 0
        /\ user_reports[i].active_days # 0 =>
             user_reports[i].last_active_date =
               Strftime(Latest(ActiveDates(RecordsOf(u))))

----------------------------------------------------------------------------
(* The current streak and the maximum *)

----------------------------------------------------------------------------
(* The streak start and the current streak *)

\* C24: after every step of a user's scan (and before the first)
\* inactive_start_date is None exactly when consecutive_inactive_days is 0.
\* Hence, with a threshold of at least 1, a user about to be flagged has a
\* recorded streak start, and no flag of analyze_user_inactivity has
\* 'Unknown' as its inactive_since.
C24_StartRecordedIffStreakRunning ==
    /\ pc = "rows" =>
         (inactive_start_date = None <=> consecutive_inactive_days = 0)
    /\ inactive_threshold >= 1 =>
         /\ Scanned /\ consecutive_inactive_days >= inactive_threshold =>
              inactive_start_date # None
         /\ engine = "csv" =>
              \A j \in 1..Len(inactive_users) :
                inactive_users[j].inactive_since # Unknown

\* the CSV engine has flagged, at a threshold of 1, a user whose streak
\* started, was reset by an active day and started again: inactive_since is
\* the date of the second start
C24_Witness ==
    /\ pc = "done"
    /\ engine = "csv"
    /\ inactive_threshold = 1
    /\ Len(RecordsOf(Users[1])) = 3
    /\ RecordsOf(Users[1])[1].is_active = PyFalse
    /\ ~Excluded(RecordsOf(Users[1])[1].date)
    /\ RecordsOf(Users[1])[2].is_active = PyTrue
    /\ \E j \in FlagsOf(Users[1]) :
         /\ inactive_users[j].consecutive_inactive_days = 1
         /\ inactive_users[j].inactive_since =
              Strftime(RecordsOf(Users[1])[3].date)

====
